---- MODULE Spec2Model ----
(***************************************************************************)
(* sflashy: the confirmation-gated copy of an image onto a device          *)
(* (flashDevice), its progress observer (progressWriter) and the caller    *)
(* that flushes the device afterwards (main), as in src/main.go 335-463.   *)
(*                                                                         *)
(* Streams are sequences.  A Read of an io.Reader returns any number of    *)
(* the bytes that are left, with a nil error, with io.EOF once the end is  *)
(* reached, or with an I/O fault; a Write of an io.Writer takes a prefix   *)
(* of what it is given and may report a fault.  bufio.Reader, io.TeeReader *)
(* and io.CopyBuffer are modelled by what they do at their call sites.     *)
(* A Read that returns (0, nil) changes nothing and is left to stuttering. *)
(* Reads of the confirmation input end only with io.EOF, and the           *)
(* confirmation input is shorter than bufio's buffer.                      *)
(***************************************************************************)
EXTENDS Integers, Sequences, FiniteSets, TLC

\* ------------------------------------------------------------------ bounds
MaxInput == 3
MaxSource == 2
MaxCalls == 2
MaxWrites == 3

\* The characters of a confirmation input and the bytes of an image.
InputChars == {"y", "Y", "n", " ", "\n"}
SourceBytes == {"a", "b"}

SeqsUpTo(A, n) == UNION {[1..k -> A] : k \in 0..n}

\* -------------------------------------------------------- message output
MsgWarning == "Flashing image to device. This will erase all data on the device."
MsgPrompt == "Are you sure? [y/N]: "
MsgCancelled == "Operation cancelled."
MsgStarting == "Starting flash operation..."
MsgProgress == "Writing..."
MsgNewline == "\n"
MsgSuccess == "Flash completed successfully!"
MsgFinalizing == "Finalizing write (syncing)..."
MsgCopyError == "An error occurred"
MsgSyncError == "Failed to sync data to device"

\* ------------------------------------------------------- progressWriter
\* The reporting threshold of progressWriter.Write.
Threshold == 2 * 1024 * 1024

\* The sizes of the slices a test hands to progressWriter.Write.
WriteSizes == {0, 1, 1024, Threshold - 1, Threshold, Threshold + 1, 3 * 1024 * 1024}

NewProgressWriter == [total |-> 0, lastShown |-> 0]

\* if pw.total-pw.lastShown > 2*1024*1024
ShouldShow_AtLeast(total, lastShown) == total - lastShown >= Threshold
ShouldShow(total, lastShown) == total - lastShown > Threshold

\* progressWriter.Write(p) with len(p) = n: the observer afterwards, the lines
\* it printed and what it returned.
PwWrite_NoMark(w, n) ==
  LET total == w.total + n
      show == ShouldShow(total, w.lastShown)
  IN [pw |-> [total |-> total, lastShown |-> w.lastShown],
      out |-> IF show THEN <<MsgProgress>> ELSE <<>>,
      n |-> n,
      err |-> "nil"]
PwWrite(w, n) ==
  LET total == w.total + n
      show == ShouldShow(total, w.lastShown)
  IN [pw |-> [total |-> total,
              lastShown |-> IF show THEN total ELSE w.lastShown],
      out |-> IF show THEN <<MsgProgress>> ELSE <<>>,
      n |-> n,
      err |-> "nil"]

\* ------------------------------------------------- the confirmation line
\* unicode.IsSpace, on the characters of InputChars and the other ASCII blanks.
IsSpace(c) == c \in {" ", "\n", "\t", "\r"}

RECURSIVE TrimLeft(_)
TrimLeft(s) == IF s # <<>> /\ IsSpace(Head(s)) THEN TrimLeft(Tail(s)) ELSE s

RECURSIVE TrimRight(_)
TrimRight(s) ==
  IF s # <<>> /\ IsSpace(s[Len(s)]) THEN TrimRight(SubSeq(s, 1, Len(s) - 1)) ELSE s

\* strings.TrimSpace
TrimSpace(s) == TrimRight(TrimLeft(s))

\* bytes.IndexByte: the place of the first c in s, 0 when there is none.
IndexByte(s, c) ==
  IF \E i \in 1..Len(s) : s[i] = c
    THEN CHOOSE i \in 1..Len(s) : s[i] = c /\ \A j \in 1..(i - 1) : s[j] # c
    ELSE 0

\* bufio.Reader.ReadString('\n') on the buffered bytes b: the bytes up to and
\* including the first line terminator, or all of them when the read ended
\* in an error (end of input).
ReadString_DropsUnterminated(b) ==
  IF IndexByte(b, "\n") > 0 THEN SubSeq(b, 1, IndexByte(b, "\n")) ELSE <<>>
ReadString(b) ==
  IF IndexByte(b, "\n") > 0 THEN SubSeq(b, 1, IndexByte(b, "\n")) ELSE b

\* response != "y" && response != "Y", negated
Affirmative_Prefix(r) == r # <<>> /\ r[1] \in {"y", "Y"}
Affirmative(r) == r = <<"y">> \/ r = <<"Y">>

\* ------------------------------------------------------------------ state
VARIABLES
  caller,      \* "none", "main" or "test": who calls flashDevice
  calls,       \* flashDevice invocations started
  pc,          \* the position of the control thread
  userInput,   \* the confirmation input stream
  inPos,       \* the bytes of userInput consumed
  bufd,        \* the bytes bufio.Reader holds
  rdErr,       \* the error bufio.Reader holds: "nil" or "EOF"
  response,    \* the trimmed answer
  source,      \* the image
  srcPos,      \* the bytes of source consumed
  chunk,       \* buf[0:nr], the bytes of the last Read
  er,          \* the error of the last Read: "nil", "EOF" or "fault"
  dest,        \* the bytes the destination holds
  destWrites,  \* Write calls the destination received
  pw,          \* the progressWriter
  pwArg,       \* len(p) of the last progressWriter.Write
  pwRet,       \* what the last progressWriter.Write returned
  pwSum,       \* history: the bytes handed to the progressWriter since it was made
  termOut,     \* the message output
  errOut,      \* the log output of main
  err,         \* the error of io.CopyBuffer: "nil", "read", "write", "short"
  ret,         \* flashDevice's return: pending, nil, or an error and what it wraps
  sync,        \* dest.Sync: "no", "ok" or "failed"
  exit,        \* the exit code of main, -1 while it runs
  faults,      \* history: the failed Reads and Writes of the copy, in order
  mark         \* history: the streams' positions when flashDevice was called

vars == <<caller, calls, pc, userInput, inPos, bufd, rdErr, response, source,
          srcPos, chunk, er, dest, destWrites, pw, pwArg, pwRet, pwSum, termOut,
          errOut, err, ret, sync, exit, faults, mark>>

streams == <<userInput, source>>
pwVars == <<pw, pwArg, pwRet, pwSum>>
copyVars == <<srcPos, chunk, er, dest, destWrites, pwVars, err, faults>>
mainVars == <<errOut, sync, exit>>

\* flashDevice's return value: none yet, nil, or
\* fmt.Errorf("error while writing to device: %w", err).
Pending == [status |-> "pending", cause |-> "nil"]
Nil == [status |-> "nil", cause |-> "nil"]
Errorf(cause) == [status |-> "error", cause |-> cause]

NoMark == [inPos |-> 0, srcPos |-> 0, dest |-> 0, destWrites |-> 0, termOut |-> 0]

InitCommon ==
  /\ caller = "none"
  /\ calls = 0
  /\ inPos = 0
  /\ bufd = <<>>
  /\ rdErr = "nil"
  /\ response = <<>>
  /\ srcPos = 0
  /\ chunk = <<>>
  /\ er = "nil"
  /\ dest = <<>>
  /\ destWrites = 0
  /\ pw = NewProgressWriter
  /\ pwArg = 0
  /\ pwRet = [n |-> 0, err |-> "nil"]
  /\ pwSum = 0
  /\ termOut = <<>>
  /\ errOut = <<>>
  /\ err = "nil"
  /\ ret = Pending
  /\ sync = "no"
  /\ exit = -1
  /\ faults = <<>>
  /\ mark = NoMark

\* The images, up to a renaming of their bytes: no step looks at a byte's
\* value, so an image that starts with "b" behaves as the one with "a" and "b"
\* exchanged.
Images == {s \in SeqsUpTo(SourceBytes, MaxSource) : s = <<>> \/ s[1] = "a"}

Init ==
  /\ InitCommon
  /\ pc = "idle"
  /\ userInput \in SeqsUpTo(InputChars, MaxInput)
  /\ source \in Images

\* ------------------------------------------------------------ flashDevice
\* The call of flashDevice: the warning and the prompt, and a bufio.Reader
\* of its own on userInput.
Call(who) ==
  /\ caller' = who
  /\ calls' = calls + 1
  /\ termOut' = termOut \o <<MsgWarning, MsgPrompt>>
  /\ bufd' = <<>>
  /\ rdErr' = "nil"
  /\ response' = <<>>
  /\ chunk' = <<>>
  /\ er' = "nil"
  /\ err' = "nil"
  /\ ret' = Pending
  /\ faults' = <<>>
  /\ mark' = [inPos |-> inPos, srcPos |-> srcPos, dest |-> Len(dest),
              destWrites |-> destWrites, termOut |-> Len(termOut)]
  /\ pc' = "confirm"
  /\ UNCHANGED <<streams, inPos, srcPos, dest, destWrites, pwVars, mainVars>>

\* The loop of bufio.Reader.ReadSlice goes on to another fill while the
\* buffer b holds no line terminator and the reader holds no error e.
NeedsFill_UntilEOF(b, e) == e = "nil"
NeedsFill(b, e) == IndexByte(b, "\n") = 0 /\ e = "nil"

\* bufio.Reader.fill: one Read of userInput into the buffer.
Fill ==
  /\ pc = "confirm"
  /\ NeedsFill(bufd, rdErr)
  /\ \E n \in 0..(Len(userInput) - inPos), e \in {"nil", "EOF"} :
       /\ e = "EOF" => inPos + n = Len(userInput)
       /\ e = "nil" => n > 0
       /\ bufd' = bufd \o SubSeq(userInput, inPos + 1, inPos + n)
       /\ inPos' = inPos + n
       /\ rdErr' = e
  /\ UNCHANGED <<caller, calls, pc, streams, response, copyVars, termOut,
                 mainVars, ret, mark>>

\* ReadString returns; the answer is trimmed and compared.  A refusal is
\* reported and returned; else the copy is announced and a progressWriter made.
Answer ==
  /\ pc = "confirm"
  /\ ~NeedsFill(bufd, rdErr)
  /\ response' = TrimSpace(ReadString(bufd))
  /\ IF ~Affirmative(response')
       THEN /\ termOut' = Append(termOut, MsgCancelled)
            /\ ret' = Nil
            /\ pc' = "returned"
            /\ UNCHANGED <<pw, pwSum>>
       ELSE /\ termOut' = Append(termOut, MsgStarting)
            /\ ret' = ret
            /\ pc' = "copy_read"
            /\ pw' = NewProgressWriter
            /\ pwSum' = 0
  /\ UNCHANGED <<caller, calls, streams, inPos, bufd, rdErr, srcPos, chunk, er,
                 dest, destWrites, pwArg, pwRet, err, faults, mainVars, mark>>

\* io.CopyBuffer after a Read that returned n bytes and the error e: the
\* bytes are written first, and only then is the error looked at.
AfterRead_ErrorFirst(n, e) == IF n > 0 /\ e = "nil" THEN "copy_write" ELSE "copy_end"
AfterRead(n, e) == IF n > 0 THEN "copy_write" ELSE "copy_end"

\* if er != nil { if er != EOF { err = er }; break }
ReadError(e) == IF e = "fault" THEN "read" ELSE "nil"

\* One Read of the TeeReader: a Read of source, whose bytes the progressWriter
\* observes.
CopyRead ==
  /\ pc = "copy_read"
  /\ \E n \in 0..(Len(source) - srcPos), e \in {"nil", "EOF", "fault"} :
       /\ e = "EOF" => srcPos + n = Len(source)
       /\ e = "nil" => n > 0
       /\ chunk' = SubSeq(source, srcPos + 1, srcPos + n)
       /\ srcPos' = srcPos + n
       /\ er' = e
       /\ faults' = IF e = "fault" THEN Append(faults, "read") ELSE faults
       /\ IF n > 0
            THEN LET w == PwWrite(pw, n)
                 IN /\ pw' = w.pw
                    /\ pwArg' = n
                    /\ pwRet' = [n |-> w.n, err |-> w.err]
                    /\ pwSum' = pwSum + n
                    /\ termOut' = termOut \o w.out
            ELSE UNCHANGED <<pwVars, termOut>>
       /\ pc' = AfterRead(n, e)
       /\ err' = IF pc' = "copy_end" THEN ReadError(e) ELSE err
  /\ UNCHANGED <<caller, calls, streams, inPos, bufd, rdErr, response, dest,
                 destWrites, mainVars, ret, mark>>

\* io.CopyBuffer after dst.Write(buf[0:nr]) returned nw and ew: the Write's
\* error, a short write, the Read's error, or the next Read.
AfterWrite_ReadsOn(nw, ew) ==
  IF ew # "nil" THEN [err |-> "write", pc |-> "copy_end"]
  ELSE IF nw # Len(chunk) THEN [err |-> "short", pc |-> "copy_end"]
  ELSE IF er = "EOF" THEN [err |-> "nil", pc |-> "copy_end"]
  ELSE [err |-> err, pc |-> "copy_read"]
AfterWrite_NoShortCheck(nw, ew) ==
  IF ew # "nil" THEN [err |-> "write", pc |-> "copy_end"]
  ELSE IF er # "nil" THEN [err |-> ReadError(er), pc |-> "copy_end"]
  ELSE [err |-> err, pc |-> "copy_read"]
AfterWrite(nw, ew) ==
  IF ew # "nil" THEN [err |-> "write", pc |-> "copy_end"]
  ELSE IF nw # Len(chunk) THEN [err |-> "short", pc |-> "copy_end"]
  ELSE IF er # "nil" THEN [err |-> ReadError(er), pc |-> "copy_end"]
  ELSE [err |-> err, pc |-> "copy_read"]

\* dst.Write(buf[0:nr]): the destination takes nw of the bytes.
CopyWrite ==
  /\ pc = "copy_write"
  /\ \E nw \in 0..Len(chunk), ew \in {"nil", "fault"} :
       /\ dest' = dest \o SubSeq(chunk, 1, nw)
       /\ destWrites' = destWrites + 1
       /\ faults' = IF ew # "nil" THEN Append(faults, "write")
                    ELSE IF nw # Len(chunk) THEN Append(faults, "short")
                    ELSE faults
       /\ err' = AfterWrite(nw, ew).err
       /\ pc' = AfterWrite(nw, ew).pc
  /\ UNCHANGED <<caller, calls, streams, inPos, bufd, rdErr, response, srcPos,
                 chunk, er, pwVars, termOut, mainVars, ret, mark>>

\* After io.CopyBuffer: the line break and the error, or the line break and
\* the success message.
CopyReturn ==
  /\ pc = "copy_end"
  /\ IF err # "nil"
       THEN /\ termOut' = Append(termOut, MsgNewline)
            /\ ret' = Errorf(err)
       ELSE /\ termOut' = termOut \o <<MsgNewline, MsgSuccess>>
            /\ ret' = Nil
  /\ pc' = "returned"
  /\ UNCHANGED <<caller, calls, streams, inPos, bufd, rdErr, response, copyVars,
                 mainVars, mark>>

\* ------------------------------------------------------------------ callers
\* main, with the image and the device open, calls flashDevice.
MainCall ==
  /\ pc = "idle"
  /\ Call("main")

\* A test calls flashDevice on its streams, and may call it again.
TestCall ==
  /\ \/ pc = "idle"
     \/ pc = "returned" /\ caller = "test" /\ calls < MaxCalls
  /\ Call("test")

\* main after flashDevice: log.Fatalf on an error, else the sync is announced.
MainReturn ==
  /\ pc = "returned"
  /\ caller = "main"
  /\ IF ret # Nil
       THEN /\ errOut' = Append(errOut, MsgCopyError)
            /\ exit' = 1
            /\ pc' = "exited"
            /\ termOut' = termOut
       ELSE /\ termOut' = Append(termOut, MsgFinalizing)
            /\ pc' = "sync"
            /\ UNCHANGED <<errOut, exit>>
  /\ UNCHANGED <<caller, calls, streams, inPos, bufd, rdErr, response, copyVars,
                 sync, ret, mark>>

\* dest.Sync() and the end of main.
MainSync ==
  /\ pc = "sync"
  /\ \E ok \in BOOLEAN :
       IF ok
         THEN sync' = "ok" /\ exit' = 0 /\ errOut' = errOut
         ELSE sync' = "failed" /\ exit' = 1 /\ errOut' = Append(errOut, MsgSyncError)
  /\ pc' = "exited"
  /\ UNCHANGED <<caller, calls, streams, inPos, bufd, rdErr, response, copyVars,
                 termOut, ret, mark>>

Next ==
  \/ MainCall
  \/ TestCall
  \/ Fill
  \/ Answer
  \/ CopyRead
  \/ CopyWrite
  \/ CopyReturn
  \/ MainReturn
  \/ MainSync

Spec == Init /\ [][Next]_vars

\* ------------------------------------------------- TestProgressWriter
\* A fresh progressWriter on a captured output, and Write calls on it.
InitPW ==
  /\ InitCommon
  /\ pc = "pw"
  /\ userInput = <<>>
  /\ source = <<>>

TestWrite ==
  /\ pc = "pw"
  /\ calls < MaxWrites
  /\ \E n \in WriteSizes :
       LET w == PwWrite(pw, n)
       IN /\ pw' = w.pw
          /\ pwArg' = n
          /\ pwRet' = [n |-> w.n, err |-> w.err]
          /\ pwSum' = pwSum + n
          /\ termOut' = termOut \o w.out
  /\ calls' = calls + 1
  /\ UNCHANGED <<caller, pc, streams, inPos, bufd, rdErr, response, srcPos,
                 chunk, er, dest, destWrites, errOut, err, ret, sync, exit,
                 faults, mark>>

NextPW == TestWrite

SpecPW == InitPW /\ [][NextPW]_vars

\* ================================================================ properties
\* What one invocation of flashDevice did: its own stretch of each stream.
Contains(s, m) == \E i \in 1..Len(s) : s[i] = m
Count(s, m) == Cardinality({i \in 1..Len(s) : s[i] = m})
IsPrefix(s, t) == Len(s) <= Len(t) /\ s = SubSeq(t, 1, Len(s))

Out == SubSeq(termOut, mark.termOut + 1, Len(termOut))
OutHas(m) == \E i \in (mark.termOut + 1)..Len(termOut) : termOut[i] = m
Written == SubSeq(dest, mark.dest + 1, Len(dest))
Writes == destWrites - mark.destWrites
Image == SubSeq(source, mark.srcPos + 1, Len(source))
Offered == SubSeq(userInput, mark.inPos + 1, Len(userInput))
Consumed == inPos - mark.inPos

Called == calls > 0
Returned == Called /\ ret.status # "pending"
Decided == Called /\ pc # "confirm"

\* The first line of the input offered to the call, with its terminator if it
\* has one, and whether it says yes: one "y" or "Y" among blanks only.
FirstLineLen ==
  LET o == Offered
      ends == {i \in 1..Len(o) : o[i] = "\n"}
  IN IF ends = {} THEN Len(o) ELSE CHOOSE i \in ends : \A j \in ends : i <= j
FirstLine == SubSeq(Offered, 1, FirstLineLen)
SaysYes ==
  LET l == FirstLine
      yes == {i \in 1..Len(l) : l[i] \in {"y", "Y"}}
      blank == {i \in 1..Len(l) : l[i] \in {" ", "\n", "\t", "\r"}}
  IN Cardinality(yes) = 1 /\ Cardinality(blank) = Len(l) - 1

\* C1: when the answer is affirmative and no Read or Write of the copy fails,
\* flashDevice returns nil and the destination has received exactly the image,
\* byte for byte, whatever the sizes of the chunks (the empty image included).
C1_CopyIsExact ==
  (Returned /\ faults = <<>> /\ SaysYes) =>
    (ret = Nil /\ Written = Image /\ OutHas(MsgSuccess))

\* C1's case: a copy of two bytes or more, in two Writes or more, has returned.
C1_Witness ==
  /\ Returned /\ SaysYes /\ faults = <<>>
  /\ Len(Image) >= 2 /\ Writes >= 2 /\ Written = Image

\* C2: an answer other than "y" or "Y" makes flashDevice return nil with the
\* cancellation message and no Write to the destination; while every call so
\* far was refused the destination has never been written.
C2_RefusalWritesNothing ==
  /\ (Decided /\ ~SaysYes) =>
       /\ Returned /\ ret = Nil
       /\ OutHas(MsgCancelled)
       /\ Writes = 0 /\ Written = <<>> /\ srcPos = mark.srcPos
  /\ (Called /\ Returned /\ Count(termOut, MsgCancelled) = calls) =>
       (dest = <<>> /\ destWrites = 0)

\* C2's case: two calls, both refused, on a non-empty image.
C2_Witness ==
  /\ calls = 2 /\ Returned /\ ~SaysYes
  /\ Count(termOut, MsgCancelled) = 2
  /\ Len(source) > 0 /\ dest = <<>>

\* C3 as claimed: once a Read or a Write of the copy has failed, no further
\* Read or Write is issued.
C3_NoIOAfterFailure ==
  [][faults # <<>> =>
       (srcPos' = srcPos /\ dest' = dest /\ destWrites' = destWrites)]_vars

\* C3 as amended: once a Read or a Write of the copy has failed, no further
\* Read is issued, and the only Write issued is the one Write of the bytes the
\* failing Read itself returned; flashDevice then prints a line break, returns
\* an error wrapping the error of the last failed call, never prints the
\* success message, and the destination holds a prefix of the image.
C3_AbortsAtFirstFailure ==
  /\ [][faults # <<>> =>
          /\ srcPos' = srcPos
          /\ destWrites' # destWrites =>
               /\ faults = <<"read">> /\ er = "fault" /\ chunk # <<>>
               /\ Len(Written) = (srcPos - mark.srcPos) - Len(chunk)
               /\ destWrites' = destWrites + 1
               /\ \E k \in 0..Len(chunk) : dest' = dest \o SubSeq(chunk, 1, k)
          /\ destWrites' = destWrites => dest' = dest]_vars
  /\ [](Returned =>
          /\ faults # <<>> <=> ret.status = "error"
          /\ faults # <<>> =>
               /\ ret = Errorf(faults[Len(faults)])
               /\ Out[Len(Out)] = MsgNewline
               /\ ~OutHas(MsgSuccess)
               /\ IsPrefix(Written, Image))

\* C3's case: a Read returned bytes together with a fault, the bytes were
\* written, and flashDevice returned the error.
C3_Witness ==
  /\ Returned /\ ret = Errorf("read")
  /\ faults = <<"read">> /\ chunk # <<>> /\ Written # <<>>
  /\ Written # Image

\* C4 as claimed: in main, the success message is on the output only once
\* dest.Sync has succeeded.
C4_SuccessOnlyAfterSync ==
  (caller = "main" /\ Contains(termOut, MsgSuccess)) => sync = "ok"

\* C5: the copy proceeds exactly when the first line of the input says yes
\* ("y" or "Y" among blanks only, terminated or not); any other first line,
\* the empty line and the end of input included, is a refusal that returns nil.
C5_ProceedsIffYes ==
  Decided =>
    LET yes == SaysYes
    IN /\ OutHas(MsgStarting) <=> yes
       /\ OutHas(MsgCancelled) <=> ~yes
       /\ ~yes => ret = Nil
       /\ yes => (Len(response) = 1 /\ response[1] \in {"y", "Y"}
                     /\ Contains(FirstLine, response[1]))

\* C5's case: a "y" with a blank before it and no line terminator after it
\* started the copy.
C5_Witness ==
  /\ Decided /\ OutHas(MsgStarting)
  /\ Len(Offered) >= 2 /\ ~Contains(Offered, "\n") /\ Offered[1] = " "

\* C6: every progressWriter.Write returns (len(p), nil) and adds len(p) to
\* total; a line is printed only by a Write that takes the bytes observed since
\* the last line above the threshold, so none while the total is at most the
\* threshold; and once the total is above the threshold a line has been printed.
C6_ProgressLines ==
  /\ [](pc = "pw" =>
          /\ pwRet = [n |-> pwArg, err |-> "nil"]
          /\ pw.total = pwSum
          /\ pw.total <= Threshold => ~Contains(termOut, MsgProgress)
          /\ pw.total > Threshold => Contains(termOut, MsgProgress))
  /\ [][(pc = "pw" /\ pw'.total - pw.lastShown <= Threshold) =>
          termOut' = termOut]_vars

\* C6's case: after two Writes or more the total is above the threshold and
\* one line or more has been printed.
C6_Witness ==
  /\ pc = "pw" /\ calls >= 2
  /\ pw.total > Threshold /\ Count(termOut, MsgProgress) >= 1
  /\ pw.total > pw.lastShown

\* C7: lastShown never decreases, 0 <= lastShown <= total, and total is never
\* more than one threshold ahead of lastShown.
C7_LastShownLags ==
  /\ [](pc = "pw" =>
          /\ 0 <= pw.lastShown
          /\ pw.lastShown <= pw.total
          /\ pw.total - pw.lastShown <= Threshold)
  /\ [][pc = "pw" => pw'.lastShown >= pw.lastShown]_vars

\* C7's case: a line has been printed and the total has since moved exactly
\* one threshold ahead of lastShown.
C7_Witness ==
  /\ pc = "pw" /\ Count(termOut, MsgProgress) >= 1
  /\ pw.lastShown > 0 /\ pw.total - pw.lastShown = Threshold

\* C8 as claimed: main announces and performs the sync only after an
\* affirmative answer and a copy that completed without error.
C8_SyncOnlyAfterCopy ==
  (caller = "main" /\ (sync # "no" \/ Contains(termOut, MsgFinalizing))) =>
    (SaysYes /\ faults = <<>> /\ Contains(termOut, MsgSuccess))

\* C9 as claimed: when flashDevice has returned, the input has been consumed
\* up to and including the first line terminator (or to its end) and no further.
C9_ConsumesOneLine == Returned => Consumed = FirstLineLen

\* C9 as amended: flashDevice takes one line as its answer and issues no Read
\* of the input once it holds a line terminator; when it has returned the
\* input has been consumed at least up to and including the first line
\* terminator (to its end when there is none) and possibly further, and what
\* was read beyond the line sits in the reader's buffer, lost to later readers.
C9_ConsumesAtLeastOneLine ==
  /\ [](Decided =>
          /\ FirstLineLen <= Consumed
          /\ inPos <= Len(userInput)
          /\ bufd = SubSeq(Offered, 1, Consumed)
          /\ OutHas(MsgStarting) <=> SaysYes)
  /\ [][inPos' # inPos =>
          ~Contains(SubSeq(userInput, mark.inPos + 1, inPos), "\n")]_vars

\* C9's case: a second call found the end of the input, although a "y" had
\* followed the first line: the first call's reader had read it ahead.
C9_Witness ==
  /\ calls = 2 /\ Returned
  /\ Offered = <<>> /\ OutHas(MsgCancelled)
  /\ mark.inPos >= 2 /\ userInput[mark.inPos] = "y"
  /\ Contains(SubSeq(userInput, 1, mark.inPos - 1), "\n")

\* The three outcomes of one invocation.
Cancelled ==
  /\ OutHas(MsgCancelled) /\ ~OutHas(MsgSuccess)
  /\ ret = Nil /\ Writes = 0
Succeeded ==
  /\ OutHas(MsgSuccess) /\ ~OutHas(MsgCancelled)
  /\ ret = Nil /\ Written = Image
Failed ==
  /\ ~OutHas(MsgSuccess) /\ ~OutHas(MsgCancelled)
  /\ ret.status = "error"

\* C10: when flashDevice has returned, exactly one of the three outcomes holds;
\* the success message is on the output exactly when the answer was affirmative
\* and every Read and Write succeeded; the starting message is on the output
\* before the destination's first Write.
C10_OneOutcome ==
  /\ Returned =>
       LET c == Cancelled
           s == Succeeded
           f == Failed
       IN /\ c \/ s \/ f
          /\ ~(c /\ s) /\ ~(c /\ f) /\ ~(s /\ f)
          /\ OutHas(MsgSuccess) <=> (faults = <<>> /\ SaysYes)
  /\ (Called /\ OutHas(MsgSuccess)) => Returned
  /\ (Called /\ Writes > 0) => OutHas(MsgStarting)

\* C10's case: a call whose Write was short returned an error, with some of
\* the image written and neither message printed.
C10_Witness ==
  /\ Returned /\ Failed /\ faults = <<"short">>
  /\ Writes > 0 /\ OutHas(MsgStarting)

====
